---- MODULE Spec2Model ----
(***************************************************************************)
(* Model of Test2/process_leaderboard.py: the ranking engine (rank_rows,   *)
(* _compare_rows, key_for) and the pipeline of run().                      *)
(*                                                                         *)
(* Numbers.  A Python float is modelled as an integer count of 1e-7, so    *)
(* that round(x, 6) is a rounding to the nearest multiple of 10 and two    *)
(* values may differ beyond the 6th decimal place.  The inputs are finite  *)
(* floats (no NaN, no infinity) and none lies exactly half way between     *)
(* two multiples of 1e-6.                                                  *)
(*                                                                         *)
(* Cell values.  A cell of a record is None, an int, a float or a str; it  *)
(* is modelled as a record [t, n, s] with the type tag t, the number n     *)
(* (in units of 1e-7) and the string s.                                    *)
(***************************************************************************)
EXTENDS Integers, Sequences, FiniteSets, TLC

VARIABLES
    entry,       \* the function the caller invokes: "rank_rows" or "run"
    pc,          \* where the call stands
    arg,         \* rank_rows: the list passed in
    ret,         \* rank_rows: the list returned
    wb,          \* run: the workbook at input_path
    rows,        \* run: the rows parse_xlsx_to_rows returned
    norm,        \* run: the records
    round_cols,  \* run: the detected round columns
    files,       \* run: the output files written so far
    result       \* run: the descriptor returned

vars == <<entry, pc, arg, ret, wb, rows, norm, round_cols, files, result>>

\* ------------------------------------------------------------------ bounds
\* Longest list of entrants handed to rank_rows.
MaxRows == 4

\* Most rows after the header row in a workbook.
MaxDataRows == 2

\* ------------------------------------------------------------ cell values
NoneV == [t |-> "none", n |-> 0, s |-> ""]
IntV(i) == [t |-> "int", n |-> i * 10000000, s |-> ""]
FloatV(x) == [t |-> "float", n |-> x, s |-> ""]
StrV(x) == [t |-> "str", n |-> 0, s |-> x]

\* A tie-group identifier: an int that counts groups, kept unscaled.
IdV(i) == [t |-> "int", n |-> i, s |-> ""]

IsNumber(v) == v.t \in {"int", "float"}

\* dict.get(k): the value under k, None when the key is missing.
Get(r, k) == IF k \in DOMAIN r THEN r[k] ELSE NoneV

\* Python's order on the strings of the model: "" < "7" < "a" < "b" < "c".
StrIndex(x) ==
    CASE x = "" -> 0
      [] x = "7" -> 1
      [] x = "a" -> 2
      [] x = "b" -> 3
      [] OTHER -> 4

\* (r.get('Player') or ''): None, '' and the numbers 0 and 0.0 become ''.
PlayerOrEmpty(r) ==
    LET p == Get(r, "Player")
    IN  IF p.t = "none" \/ (p.t = "str" /\ p.s = "") \/ (IsNumber(p) /\ p.n = 0)
        THEN StrV("")
        ELSE p

\* a < b of two Player values; a str against a number is a TypeError.
NameTypeError(p, q) == (p.t = "str") # (q.t = "str")

NameLess(p, q) ==
    IF p.t = "str" THEN StrIndex(p.s) < StrIndex(q.s) ELSE p.n < q.n

\* ---------------------------------------------------------- _compare_rows
Max(a, b) == IF a >= b THEN a ELSE b

\* al[i] if i < len(al) else 0.0 (i is 1-based here).
Padded(l, i) == IF i <= Len(l) THEN l[i] ELSE 0

\* The indices at which the padded countback vectors differ.
DiffAt(al, bl) == {i \in 1..Max(Len(al), Len(bl)) : Padded(al, i) # Padded(bl, i)}

FirstDiff(al, bl) == CHOOSE i \in DiffAt(al, bl) : \A j \in DiffAt(al, bl) : i <= j

\* A variant that compares the maxima only.
CompareCountback_max(al, bl) ==
    IF Padded(al, 1) = Padded(bl, 1) THEN 0
    ELSE IF Padded(al, 1) > Padded(bl, 1) THEN -1 ELSE 1

CompareCountback(al, bl) ==
    IF DiffAt(al, bl) = {} THEN 0
    ELSE IF Padded(al, FirstDiff(al, bl)) > Padded(bl, FirstDiff(al, bl)) THEN -1 ELSE 1

CompareSpend(a, b) ==
    IF a["_rank_spend"] # b["_rank_spend"]
    THEN (IF a["_rank_spend"] < b["_rank_spend"] THEN -1 ELSE 1)
    ELSE CompareCountback(a["_countback"], b["_countback"])

CompareRows(a, b) ==
    IF a["_rank_total"] # b["_rank_total"]
    THEN (IF a["_rank_total"] > b["_rank_total"] THEN -1 ELSE 1)
    ELSE CompareSpend(a, b)

\* ------------------------------------------------------------- rank_rows
\* The comparator handed to sorted(): _compare_rows, then the Player names.
SortCmp(a, b) ==
    LET c == CompareRows(a, b)
    IN  IF c # 0 THEN c
        ELSE IF NameLess(PlayerOrEmpty(a), PlayerOrEmpty(b)) THEN -1 ELSE 1

\* sorted() raises when it compares two rows that _compare_rows finds equal
\* and whose names are a str and a number.  Rows equal under _compare_rows
\* end up next to each other, so such a pair is compared whenever it exists.
SortRaises(l) ==
    \E i, j \in DOMAIN l :
        /\ i # j
        /\ CompareRows(l[i], l[j]) = 0
        /\ NameTypeError(PlayerOrEmpty(l[i]), PlayerOrEmpty(l[j]))

\* sorted() is stable: x goes behind every element that is not greater.
RECURSIVE InsertSorted(_, _)
InsertSorted(l, x) ==
    IF l = <<>> THEN <<x>>
    ELSE IF SortCmp(x, l[Len(l)]) < 0
         THEN Append(InsertSorted(SubSeq(l, 1, Len(l) - 1), x), l[Len(l)])
         ELSE Append(l, x)

RECURSIVE Sorted(_)
Sorted(l) ==
    IF l = <<>> THEN <<>>
    ELSE InsertSorted(Sorted(SubSeq(l, 1, Len(l) - 1)), l[Len(l)])

\* round(x, 6) of a float counted in 1e-7.
Round6(x) == ((x + 5) \div 10) * 10

key_for(r) ==
    << Round6(r["_rank_total"]),
       Round6(r["_rank_spend"]),
       [i \in DOMAIN r["_countback"] |-> Round6(r["_countback"][i])] >>

\* key_for(r) for r in norm_sorted
KeysOf(l) == [i \in DOMAIN l |-> key_for(l[i])]

\* Counter(key_for(r) for r in norm_sorted)[k]
counts(keys, k) == Cardinality({i \in DOMAIN keys : keys[i] = k})

\* A variant that numbers the ranks densely (1, 1, 1, 2).
RankAt_dense(keys, done, idx) ==
    IF idx = 1 THEN 1
    ELSE IF keys[idx - 1] = keys[idx]
         THEN done[idx - 1].rank
         ELSE done[idx - 1].rank + 1

\* The rank of the row at idx, given the annotated rows before it.
RankAt(keys, done, idx) ==
    IF idx = 1 THEN 1
    ELSE IF keys[idx - 1] = keys[idx]
         THEN done[idx - 1].rank
         ELSE idx

\* The tie metadata of a row of key k.
TieFields(keys, k, group_map) ==
    IF counts(keys, k) > 1
    THEN [tie_group |-> IdV(group_map[k]), tie_highlight |-> TRUE]
    ELSE [tie_group |-> NoneV, tie_highlight |-> FALSE]

\* group_map after the row of key k has been visited.
GroupMapAfter(keys, k, tie_group_id, group_map) ==
    IF k \notin DOMAIN group_map /\ counts(keys, k) > 1
    THEN group_map @@ (k :> tie_group_id + 1)
    ELSE group_map

\* A variant that counts every new key, repeated or not.
GroupIdAfter_every(keys, k, tie_group_id, group_map) ==
    IF k \notin DOMAIN group_map THEN tie_group_id + 1 ELSE tie_group_id

GroupIdAfter(keys, k, tie_group_id, group_map) ==
    IF k \notin DOMAIN group_map /\ counts(keys, k) > 1
    THEN tie_group_id + 1
    ELSE tie_group_id

\* The loop over enumerate(norm_sorted): done holds the annotated rows.
RECURSIVE Annotate(_, _, _, _, _)
Annotate(l, keys, done, tie_group_id, group_map) ==
    IF Len(done) = Len(l) THEN done
    ELSE LET idx == Len(done) + 1
             k == keys[idx]
             gm == GroupMapAfter(keys, k, tie_group_id, group_map)
             gid == GroupIdAfter(keys, k, tie_group_id, group_map)
             row == TieFields(keys, k, gm) @@ [rank |-> RankAt(keys, done, idx)] @@ l[idx]
         IN  Annotate(l, keys, Append(done, row), gid, gm)

EmptyMap == [k \in {} |-> 0]

AnnotateSorted(norm_sorted) ==
    Annotate(norm_sorted, KeysOf(norm_sorted), <<>>, 0, EmptyMap)

rank_rows(l) == AnnotateSorted(Sorted(l))

\* -------------------------------------------------------- normalize_rows
\* The column letters of the model in the order of their base-26 index.
ColOrder == <<"A", "B", "C", "D">>

\* sorted(header_row.keys(), key=base-26 index)
SortedCols(header_row) ==
    LET Keep(c) == c \in DOMAIN header_row IN SelectSeq(ColOrder, Keep)

\* header_row.get(c) or 'COL_<c>'
HeaderOf(header_row, c) ==
    IF header_row[c].t = "none" \/ header_row[c].s = "" THEN "COL_" \o c
    ELSE header_row[c].s

HeadersOf(header_row) ==
    [i \in DOMAIN SortedCols(header_row) |-> HeaderOf(header_row, SortedCols(header_row)[i])]

\* str(v).strip() on the cell texts of the model.
Strip(x) ==
    CASE x = " a " -> "a"
      [] x = " - " -> "-"
      [] OTHER -> x

\* re.fullmatch(r"-?\d+", v_str) and int(v_str), on the texts of the model.
IsIntText(x) == x \in {"0", "3", "4", "5", "7"}

IntOfText(x) ==
    CASE x = "0" -> 0
      [] x = "3" -> 3
      [] x = "4" -> 4
      [] x = "5" -> 5
      [] OTHER -> 7

\* re.fullmatch(r"-?\d+\.\d+", v_str) and float(v_str), counted in 1e-7.
IsFloatText(x) == x \in {"2.5", "4.0000001"}

FloatOfText(x) == IF x = "2.5" THEN 25000000 ELSE 40000001

\* One cell of a row after the header row.
NormalizeCell(v) ==
    IF v.t = "none" THEN NoneV
    ELSE IF Strip(v.s) = "-" \/ Strip(v.s) = "" THEN NoneV
    ELSE IF IsIntText(Strip(v.s)) THEN IntV(IntOfText(Strip(v.s)))
    ELSE IF IsFloatText(Strip(v.s)) THEN FloatV(FloatOfText(Strip(v.s)))
    ELSE StrV(Strip(v.s))

Range(f) == {f[i] : i \in DOMAIN f}

\* The column a header is read from: a later column of the same header
\* overwrites an earlier one (rec[h] = ...).
LastColOf(header_row, h) ==
    LET cols == SortedCols(header_row)
        hs == HeadersOf(header_row)
        at == {i \in DOMAIN hs : hs[i] = h}
    IN  cols[CHOOSE i \in at : \A j \in at : j <= i]

NormalizeRow(header_row, r) ==
    [h \in Range(HeadersOf(header_row)) |-> NormalizeCell(Get(r, LastColOf(header_row, h)))]

\* A variant that starts one row late (rows[2:]).
normalize_rows_late(rs) ==
    IF rs = <<>> THEN <<>>
    ELSE [i \in 1..(Len(rs) - 2) |-> NormalizeRow(rs[1], rs[i + 2])]

normalize_rows(rs) ==
    IF rs = <<>> THEN <<>>
    ELSE [i \in 1..(Len(rs) - 1) |-> NormalizeRow(rs[1], rs[i + 1])]

\* list(norm[0].keys()): the headers in column order, a repeated one once.
RECURSIVE Dedup(_)
Dedup(l) ==
    IF l = <<>> THEN <<>>
    ELSE LET front == Dedup(SubSeq(l, 1, Len(l) - 1))
         IN  IF l[Len(l)] \in Range(front) THEN front ELSE Append(front, l[Len(l)])

HeaderList(rs) == Dedup(HeadersOf(rs[1]))

\* ----------------------------------------------------------- run: scoring
\* r[k] = v
Put(r, k, v) == (k :> v) @@ r

\* re.match(r'^R\d{2}$', h) on the headers of the model.
IsRoundHeader(h) == h \in {"R01", "R02"}

IndexOf(l, x) == CHOOSE i \in DOMAIN l : l[i] = x /\ \A j \in DOMAIN l : l[j] = x => i <= j

\* Some record holds an int under h.
HoldsInt(recs, h) == \E i \in DOMAIN recs : recs[i][h].t = "int"

\* The round columns: the R<dd> headers, else the headers that follow
\* 'Player' (30 at most) under which some record holds an int.
DetectRoundCols(headers, recs) ==
    LET byName == SelectSeq(headers, IsRoundHeader)
        Keep(h) == HoldsInt(recs, h)
    IN  IF byName # <<>> THEN byName
        ELSE IF "Player" \in Range(headers)
             THEN SelectSeq(SubSeq(headers, IndexOf(headers, "Player") + 1,
                                   IF Len(headers) < IndexOf(headers, "Player") + 30
                                   THEN Len(headers) ELSE IndexOf(headers, "Player") + 30),
                            Keep)
             ELSE <<>>

\* float(str(v)) of a str cell: of the texts that normalize_rows leaves a
\* str in the model ("a", "n/a", "$2") none parses.
ParsesAsFloat(x) == x \in {}

FloatOfStr(x) == 0

\* The score a round cell counts for: None and unparseable text count 0.
RoundVal(v) ==
    IF v.t = "none" THEN IntV(0)
    ELSE IF IsNumber(v) THEN v
    ELSE IF ParsesAsFloat(v.s) THEN FloatV(FloatOfStr(v.s))
    ELSE IntV(0)

\* pts += val: the sum is a float as soon as one term is.
Add(p, v) ==
    [t |-> IF p.t = "float" \/ v.t = "float" THEN "float" ELSE "int", n |-> p.n + v.n, s |-> ""]

RECURSIVE SumRounds(_, _)
SumRounds(r, cols) ==
    IF cols = <<>> THEN IntV(0)
    ELSE Add(SumRounds(r, SubSeq(cols, 1, Len(cols) - 1)), RoundVal(Get(r, cols[Len(cols)])))

ComputeTotals(r, cols) ==
    IF cols # <<>>
    THEN Put(Put(r, "computed_rounds_total", SumRounds(r, cols)),
             "computed_rounds_count", IntV(Len(cols)))
    ELSE Put(Put(r, "computed_rounds_total", NoneV), "computed_rounds_count", IntV(0))

TotalCandidates == <<"Total", "Pts", "Points", "TOTAL">>

\* A variant without the break: the last candidate that is a header.
TotalCol_last(headers) ==
    LET InHeaders(c) == c \in Range(headers)
        found == SelectSeq(TotalCandidates, InHeaders)
    IN  IF found = <<>> THEN "" ELSE found[Len(found)]

\* The first candidate that is a header; "" stands for None.
TotalCol(headers) ==
    LET InHeaders(c) == c \in Range(headers)
        found == SelectSeq(TotalCandidates, InHeaders)
    IN  IF found = <<>> THEN "" ELSE found[1]

\* re.search(r'spend|spent|\$m|\$|spent', h, re.I) on the headers of the model.
IsSpendHeader(h) == h \in {"Spent ($m)", "$m/Pt"}

SpendCol(headers) ==
    LET found == SelectSeq(headers, IsSpendHeader)
    IN  IF found = <<>> THEN "" ELSE found[1]

RankTotal(r, total_col) ==
    LET tot == IF total_col # "" /\ IsNumber(Get(r, total_col))
               THEN Get(r, total_col)
               ELSE Get(r, "computed_rounds_total")
    IN  IF tot.t # "none" THEN tot.n ELSE 0

\* float(str(v).replace(',', '').replace('$', '')) of a str cell, 0.0 when
\* it does not parse.
SpendOfStr(x) ==
    IF x = "$2" THEN 20000000 ELSE 0

RankSpend(r, spend_col) ==
    IF spend_col # "" /\ Get(r, spend_col).t # "none"
    THEN (IF IsNumber(Get(r, spend_col)) THEN Get(r, spend_col).n
          ELSE SpendOfStr(Get(r, spend_col).s))
    ELSE 0

\* sorted(scores, reverse=True)
RECURSIVE InsertDesc(_, _)
InsertDesc(l, x) ==
    IF l = <<>> THEN <<x>>
    ELSE IF x > l[Len(l)]
         THEN Append(InsertDesc(SubSeq(l, 1, Len(l) - 1), x), l[Len(l)])
         ELSE Append(l, x)

RECURSIVE SortDesc(_)
SortDesc(l) ==
    IF l = <<>> THEN <<>>
    ELSE InsertDesc(SortDesc(SubSeq(l, 1, Len(l) - 1)), l[Len(l)])

Countback(r, cols) == SortDesc([i \in DOMAIN cols |-> RoundVal(Get(r, cols[i])).n])

\* The helper values for ranking of one record.
RankFields(r, headers, cols) ==
    Put(Put(Put(r, "_rank_total", RankTotal(r, TotalCol(headers))),
            "_rank_spend", RankSpend(r, SpendCol(headers))),
        "_countback", Countback(r, cols))

Score(recs, headers) ==
    LET cols == DetectRoundCols(headers, recs)
    IN  [i \in DOMAIN recs |-> RankFields(ComputeTotals(recs[i], cols), headers, cols)]

\* ---------------------------------------------------------------- inputs
make_row(name, total, spend, countback) ==
    [Player |-> name] @@ ("_rank_total" :> total) @@ ("_rank_spend" :> spend)
        @@ ("_countback" :> countback)

\* The entrants of the longer lists, all of total 10 (1e-6): a spend and a
\* countback vector, then the same with a trailing 0.0, the same with a
\* spend greater by 1e-7, and a vector that is greater.
Profiles == {<<0, <<10>>>>, <<0, <<10, 0>>>>, <<1, <<10>>>>, <<0, <<10, 10>>>>}

Entrants ==
    {make_row(p, 10, pr[1], pr[2]) : p \in {StrV("a"), StrV("b")}, pr \in Profiles}

\* The entrants of the two-element lists.
PairValues == {0, 1, 10}

PairCountbacks == {<<>>, <<0>>, <<10>>, <<10, 0>>, <<10, -10>>, <<10, 10>>, <<11, -10>>}

PairEntrants ==
    {make_row(p, t, s, c) : p \in {StrV(""), StrV("a"), StrV("b")}, t \in PairValues,
                            s \in PairValues, c \in PairCountbacks}

\* A workbook: whether the package opens, whether it holds sheet1.xml, and
\* the rows of the sheet, each a mapping from column letter to cell text.
HeaderRows ==
    {[A |-> StrV("Player"), B |-> b, C |-> cd[1], D |-> cd[2]] :
        b \in {StrV("R01"), StrV("Rd1")},
        cd \in {<<StrV("Total"), StrV("Pts")>>, <<NoneV, StrV("Pts")>>,
                <<StrV("Total"), StrV("Spent ($m)")>>}}

DataRows ==
    {[A |-> a, B |-> b, C |-> c, D |-> d] :
        a \in {StrV("a"), StrV("7")}, b \in {StrV("3"), StrV(" - ")},
        c \in {StrV("5"), StrV("n/a")}, d \in {StrV("4"), StrV("$2")}}

Sheets ==
    {<<>>} \cup
    {<<h>> \o d : h \in HeaderRows, d \in UNION {[1..n -> DataRows] : n \in 0..MaxDataRows}}

Workbooks ==
    {[openable |-> FALSE, has_sheet |-> FALSE, sheet |-> <<>>],
     [openable |-> TRUE, has_sheet |-> FALSE, sheet |-> <<>>]}
    \cup {[openable |-> TRUE, has_sheet |-> TRUE, sheet |-> sh] : sh \in Sheets}

NoWorkbook == [openable |-> FALSE, has_sheet |-> FALSE, sheet |-> <<>>]
NoFiles == [written |-> {}, csv |-> <<>>, json_rows |-> <<>>, json_round_columns |-> <<>>]
NoResult == [status |-> "none", rows |-> 0, round_columns |-> <<>>, error |-> ""]

\* ----------------------------------------------------------------- spec
InitRankRows ==
    /\ entry = "rank_rows"
    /\ \/ \E n \in 0..MaxRows : arg \in [1..n -> Entrants]
       \/ arg \in [1..2 -> PairEntrants]
    /\ wb = NoWorkbook

InitRun ==
    /\ entry = "run"
    /\ arg = <<>>
    /\ wb \in Workbooks

Init ==
    /\ InitRankRows \/ InitRun
    /\ pc = "call"
    /\ ret = <<>>
    /\ rows = <<>>
    /\ norm = <<>>
    /\ round_cols = <<>>
    /\ files = NoFiles
    /\ result = NoResult

Raised(e) == [status |-> "error", rows |-> 0, round_columns |-> <<>>, error |-> e]

\* A caller invokes rank_rows(arg).
CallRankRows ==
    /\ entry = "rank_rows"
    /\ pc = "call"
    /\ IF SortRaises(arg)
       THEN /\ pc' = "raised"
            /\ ret' = ret
       ELSE /\ pc' = "returned"
            /\ ret' = rank_rows(arg)
    /\ UNCHANGED <<entry, arg, wb, rows, norm, round_cols, files, result>>

\* run: rows = parse_xlsx_to_rows(input_path)
RunParse ==
    /\ entry = "run"
    /\ pc = "call"
    /\ IF ~wb.openable
       THEN /\ pc' = "raised"
            /\ result' = Raised("BadZipFile")
            /\ rows' = rows
       ELSE IF ~wb.has_sheet
       THEN /\ pc' = "raised"
            /\ result' = Raised("FileNotFoundError")
            /\ rows' = rows
       ELSE /\ pc' = "parsed"
            /\ rows' = wb.sheet
            /\ result' = result
    /\ UNCHANGED <<entry, arg, ret, wb, norm, round_cols, files>>

\* run: norm = normalize_rows(rows); raise when it is empty.
RunNormalize ==
    /\ entry = "run"
    /\ pc = "parsed"
    /\ norm' = normalize_rows(rows)
    /\ IF normalize_rows(rows) = <<>>
       THEN /\ pc' = "raised"
            /\ result' = Raised("RuntimeError")
       ELSE /\ pc' = "normalized"
            /\ result' = result
    /\ UNCHANGED <<entry, arg, ret, wb, rows, round_cols, files>>

\* run: the round columns, the totals and the helper values for ranking.
RunScore ==
    /\ entry = "run"
    /\ pc = "normalized"
    /\ round_cols' = DetectRoundCols(HeaderList(rows), norm)
    /\ norm' = Score(norm, HeaderList(rows))
    /\ pc' = "scored"
    /\ UNCHANGED <<entry, arg, ret, wb, rows, files, result>>

\* A variant without the try/except: the error of rank_rows leaves run.
RunRank_propagates ==
    /\ entry = "run"
    /\ pc = "scored"
    /\ IF SortRaises(norm)
       THEN /\ pc' = "raised"
            /\ result' = Raised("TypeError")
            /\ norm' = norm
       ELSE /\ pc' = "ranked"
            /\ result' = result
            /\ norm' = rank_rows(norm)
    /\ UNCHANGED <<entry, arg, ret, wb, rows, round_cols, files>>

\* run: try: norm = rank_rows(norm) except Exception: pass
RunRank ==
    /\ entry = "run"
    /\ pc = "scored"
    /\ norm' = IF SortRaises(norm) THEN norm ELSE rank_rows(norm)
    /\ pc' = "ranked"
    /\ UNCHANGED <<entry, arg, ret, wb, rows, round_cols, files, result>>

\* run: write the CSV and the JSON file and return the descriptor.
RunWrite ==
    /\ entry = "run"
    /\ pc = "ranked"
    /\ files' = [written |-> {"csv", "json"}, csv |-> norm, json_rows |-> norm,
                 json_round_columns |-> round_cols]
    /\ result' = [status |-> "ok", rows |-> Len(norm), round_columns |-> round_cols,
                  error |-> ""]
    /\ pc' = "returned"
    /\ UNCHANGED <<entry, arg, ret, wb, rows, norm, round_cols>>

Next ==
    \/ CallRankRows
    \/ RunParse
    \/ RunNormalize
    \/ RunScore
    \/ RunRank
    \/ RunWrite

Spec == Init /\ [][Next]_vars


\* ------------------------------------------------------- claim vocabulary
\* The list rank_rows returned: to its caller, or to run when it did not raise.
RankedList ==
    IF entry = "rank_rows" /\ pc = "returned" THEN ret
    ELSE IF entry = "run" /\ pc \in {"ranked", "returned"} /\ norm # <<>>
            /\ "rank" \in DOMAIN norm[1]
         THEN norm
         ELSE <<>>

\* The records of run as they stand after scoring, before ranking.
ScoredRecords == Score(normalize_rows(wb.sheet), HeaderList(wb.sheet))

ValidWorkbook == wb.openable /\ wb.has_sheet /\ Len(wb.sheet) > 1

RankMetadata == {"rank", "tie_group", "tie_highlight"}

Unannotated(r) == [k \in (DOMAIN r) \ RankMetadata |-> r[k]]

Occurrences(l, x) == Cardinality({i \in DOMAIN l : l[i] = x})

IsPermutation(l, m) ==
    LET bare == [i \in DOMAIN l |-> Unannotated(l[i])]
    IN  /\ Len(l) = Len(m)
        /\ \A i \in DOMAIN m : Occurrences(bare, m[i]) = Occurrences(m, m[i])

\* a is lexicographically greater than b, a missing index read as 0.0.
AtOrZero(l, i) == IF i \in DOMAIN l THEN l[i] ELSE 0

LexGreater(a, b) ==
    \E k \in (DOMAIN a) \cup (DOMAIN b) :
        /\ AtOrZero(a, k) > AtOrZero(b, k)
        /\ \A m \in 1..(k - 1) : AtOrZero(a, m) = AtOrZero(b, m)

FullyTied(a, b) ==
    /\ a["_rank_total"] = b["_rank_total"]
    /\ a["_rank_spend"] = b["_rank_spend"]
    /\ a["_countback"] = b["_countback"]

\* The positions that hold the tie-key of position i.
SameKey(keys, i) == {j \in DOMAIN keys : keys[j] = keys[i]}

FirstOf(S) == CHOOSE i \in S : \A j \in S : i <= j

\* The first positions of the tie-keys that occur more than once.
GroupStarts(keys) ==
    {i \in DOMAIN keys : Cardinality(SameKey(keys, i)) > 1 /\ i = FirstOf(SameKey(keys, i))}

\* ------------------------------------------------------------------ C1
\* C1: rank_rows returns a permutation of its input, and run, given a
\* workbook with at least one row after the header row, returns and reports
\* and writes as many records as there are rows after the header row.
C1_EntrantsPreserved ==
    /\ (entry = "rank_rows" /\ pc = "returned") => IsPermutation(ret, arg)
    /\ (entry = "run" /\ RankedList # <<>>) =>
          LET scored == ScoredRecords IN IsPermutation(RankedList, scored)
    /\ (entry = "run" /\ ValidWorkbook) =>
          /\ pc # "raised"
          /\ pc = "returned" =>
                /\ result.status = "ok"
                /\ result.rows = Len(wb.sheet) - 1
                /\ Len(files.csv) = Len(wb.sheet) - 1
                /\ Len(files.json_rows) = Len(wb.sheet) - 1

\* run returned two records, ranked into another order than the rows had.
C1_Witness ==
    /\ entry = "run"
    /\ pc = "returned"
    /\ result.rows = 2
    /\ RankedList # <<>>
    /\ Unannotated(RankedList[1]) = ScoredRecords[2]
    /\ Unannotated(RankedList[2]) = ScoredRecords[1]
    /\ ScoredRecords[1] # ScoredRecords[2]

\* ------------------------------------------------------------------ C2
\* C2: in the returned list the first entrant has rank 1, ranks never
\* decrease, and the entrant at position p has the rank of the entrant
\* before it when their tie-keys are equal and rank p otherwise.
C2_RankNumbers ==
    LET L == RankedList
        keys == KeysOf(L)
    IN  \A p \in DOMAIN L :
            IF p = 1 THEN L[p].rank = 1
            ELSE /\ L[p].rank >= L[p - 1].rank
                 /\ (keys[p] = keys[p - 1]) <=> (L[p].rank = L[p - 1].rank)
                 /\ (keys[p] # keys[p - 1]) => (L[p].rank = p)

\* A 3-way tie at position 1, then rank 4.
C2_Witness ==
    /\ Len(RankedList) = 4
    /\ RankedList[1].rank = 1
    /\ RankedList[2].rank = 1
    /\ RankedList[3].rank = 1
    /\ RankedList[4].rank = 4

\* ------------------------------------------------------------------ C3
\* C3 (as claimed): of two entrants with equal total and different spend the
\* one with the lower spend comes earlier and has the strictly smaller rank.
C3_LowerSpendRanksStrictlyBetter ==
    LET L == RankedList
    IN  \A i, j \in DOMAIN L :
            (/\ L[i]["_rank_total"] = L[j]["_rank_total"]
             /\ L[i]["_rank_spend"] < L[j]["_rank_spend"])
            => (i < j /\ L[i].rank < L[j].rank)

\* ------------------------------------------------------------------ C4
\* C4: of two entrants with equal total and equal spend, the one whose
\* countback vector is lexicographically greater (a missing index read as
\* 0.0, decided at the first differing index) comes earlier.
C4_CountbackOrder ==
    LET L == RankedList
    IN  \A i, j \in DOMAIN L :
            (/\ L[i]["_rank_total"] = L[j]["_rank_total"]
             /\ L[i]["_rank_spend"] = L[j]["_rank_spend"]
             /\ LexGreater(L[i]["_countback"], L[j]["_countback"]))
            => i < j

\* The input held the greater vector second, equal at the first index and
\* shorter than the other: the order is decided past the maximum and past
\* the end of the shorter vector, and the sort moved it to the front.
C4_Witness ==
    /\ entry = "rank_rows"
    /\ pc = "returned"
    /\ Len(arg) = 2
    /\ arg[1]["_rank_total"] = arg[2]["_rank_total"]
    /\ arg[1]["_rank_spend"] = arg[2]["_rank_spend"]
    /\ arg[1]["_countback"] = <<10, -10>>
    /\ arg[2]["_countback"] = <<10>>
    /\ ret[1]["_countback"] = <<10>>

\* ------------------------------------------------------------------ C5
\* C5 (as claimed): two fully tied entrants (identical total, spend and
\* countback) stand in ascending order of name and have the same rank, the
\* same non-null tie_group and tie_highlight true.
C5_FullTie ==
    LET L == RankedList
    IN  \A i, j \in DOMAIN L :
            (i # j /\ FullyTied(L[i], L[j])) =>
                /\ (StrIndex(PlayerOrEmpty(L[i]).s) < StrIndex(PlayerOrEmpty(L[j]).s)
                        => i < j)
                /\ L[i].rank = L[j].rank
                /\ L[i].tie_group = L[j].tie_group
                /\ L[i].tie_group # NoneV
                /\ L[i].tie_highlight
                /\ L[j].tie_highlight

\* ------------------------------------------------------------------ C6
\* C6: an entrant has an integer tie_group and tie_highlight true exactly
\* when its tie-key occurs more than once, else null and false; entrants
\* of one repeated key share the identifier, different repeated keys have
\* different identifiers, and the identifiers are 1, 2, 3, ... without a
\* gap in the order of the keys' first occurrences.
C6_TieGroups ==
    LET L == RankedList
        keys == KeysOf(L)
        starts == GroupStarts(keys)
    IN  /\ \A i \in DOMAIN L :
              IF Cardinality(SameKey(keys, i)) > 1
              THEN /\ L[i].tie_group.t = "int"
                   /\ L[i].tie_highlight
                   /\ L[i].tie_group.n =
                          Cardinality({g \in starts : g <= FirstOf(SameKey(keys, i))})
              ELSE /\ L[i].tie_group = NoneV
                   /\ ~L[i].tie_highlight
        /\ \A i, j \in DOMAIN L :
              (Cardinality(SameKey(keys, i)) > 1 /\ Cardinality(SameKey(keys, j)) > 1) =>
                  ((L[i].tie_group = L[j].tie_group) <=> (keys[i] = keys[j]))

\* Two tie groups and identifiers 1 and 2, the second group behind the first.
C6_Witness ==
    /\ Cardinality(GroupStarts(KeysOf(RankedList))) = 2
    /\ RankedList[1].tie_group = IdV(1)
    /\ RankedList[2].tie_group = IdV(1)
    /\ RankedList[3].tie_group = IdV(2)
    /\ RankedList[4].tie_group = IdV(2)

\* ------------------------------------------------------------------ C7
\* C7: when parsing and normalization give at least one record and the
\* ranking raises, run does not raise: it keeps the records unranked in
\* their original order, writes both files with every one of them and
\* returns the descriptor; a package that cannot be opened, a missing
\* worksheet part or zero records make run raise with no file written.
RankingRaises == entry = "run" /\ ValidWorkbook /\ SortRaises(ScoredRecords)

C7_RankingFailureNonFatal ==
    /\ (entry = "run" /\ ValidWorkbook) =>
          LET scored == ScoredRecords
          IN  SortRaises(scored) =>
                /\ pc # "raised"
                /\ pc \in {"ranked", "returned"} => norm = scored
                /\ pc = "returned" =>
                      /\ files.written = {"csv", "json"}
                      /\ files.csv = scored
                      /\ files.json_rows = scored
                      /\ result.status = "ok"
                      /\ result.rows = Len(scored)
    /\ (entry = "run" /\ ~ValidWorkbook) =>
          /\ pc \in {"call", "parsed", "raised"}
          /\ files.written = {}
    /\ pc = "raised" => (files.written = {} /\ ~ValidWorkbook)

\* run returned although the ranking of its two records raised.
C7_Witness ==
    /\ RankingRaises
    /\ pc = "returned"
    /\ result.rows = 2
    /\ files.written = {"csv", "json"}

\* ------------------------------------------------------------------ C8
\* The headers of the workbook and, among the candidate headers, those
\* that are present.
WbHeaders == Range(HeadersOf(wb.sheet[1]))

PresentCandidates == {k \in DOMAIN TotalCandidates : TotalCandidates[k] \in WbHeaders}

\* The value of the round total a record falls back to.
FallbackTotal(r) ==
    IF r.computed_rounds_total.t = "none" THEN 0 ELSE r.computed_rounds_total.n

RunScored == entry = "run" /\ pc \in {"scored", "ranked", "returned"}

\* C8 (as claimed): the ranking total of a record is the value of the first
\* header in the order Total, Pts, Points, TOTAL whose value for the record
\* is numeric, else the computed round total, else 0.0.
C8_FirstNumericCandidate ==
    RunScored =>
        LET present == PresentCandidates
        IN  \A i \in DOMAIN norm :
                LET numeric == {k \in present : IsNumber(norm[i][TotalCandidates[k]])}
                IN  norm[i]["_rank_total"] =
                        IF numeric # {} THEN norm[i][TotalCandidates[FirstOf(numeric)]].n
                        ELSE FallbackTotal(norm[i])

\* C8 (amended): one total column serves every record, the first of Total,
\* Pts, Points, TOTAL that is a header; the ranking total of a record is its
\* value under that header when numeric, else the computed round total,
\* else 0.0; a header of lower priority is never read.
C8_FirstPresentCandidate ==
    RunScored =>
        LET present == PresentCandidates
        IN  \A i \in DOMAIN norm :
                norm[i]["_rank_total"] =
                    IF /\ present # {}
                       /\ IsNumber(norm[i][TotalCandidates[FirstOf(present)]])
                    THEN norm[i][TotalCandidates[FirstOf(present)]].n
                    ELSE FallbackTotal(norm[i])

\* A record with a non-numeric Total and a numeric Pts whose ranking total
\* is the round total, not its Pts.
C8_Witness ==
    /\ RunScored
    /\ \E i \in DOMAIN norm :
          /\ {"Total", "Pts"} \subseteq WbHeaders
          /\ ~IsNumber(norm[i]["Total"])
          /\ IsNumber(norm[i]["Pts"])
          /\ norm[i]["_rank_total"] = FallbackTotal(norm[i])
          /\ norm[i]["_rank_total"] # norm[i]["Pts"].n

\* ------------------------------------------------------------------ C9
\* C9 (as claimed): two entrants of one tie group have the same rank and no
\* entrant of another or of no tie group stands between them.
C9_TieGroupContiguous ==
    LET L == RankedList
    IN  \A i, j \in DOMAIN L :
            (i < j /\ L[i].tie_group # NoneV /\ L[i].tie_group = L[j].tie_group) =>
                /\ L[i].rank = L[j].rank
                /\ \A m \in i..j : L[m].tie_group = L[i].tie_group

\* ----------------------------------------------------------------- C10
\* C10 (as claimed): the tie-keys of two entrants are equal exactly when
\* _compare_rows returns 0 for them.
C10_KeyAgreesWithComparator ==
    (entry = "rank_rows" /\ pc = "returned") =>
        \A i, j \in DOMAIN arg :
            (key_for(arg[i]) = key_for(arg[j])) <=> (CompareRows(arg[i], arg[j]) = 0)
====
